---- MODULE Spec2Model ----
(***************************************************************************)
(* A model of CodeFile.py (fortress): the per-line decomposition of a      *)
(* Fortran source line into regions (CodeLine.parseLine), its rebuild      *)
(* (CodeLine.buildFullLine), the fixed-to-free layout conversion, and the  *)
(* passes of CodeFile over the line sequence.                              *)
(*                                                                         *)
(* A Python string is modelled as a sequence of one-character strings, so  *)
(* that the regular expressions of the source can be computed character    *)
(* by character.                                                           *)
(***************************************************************************)
EXTENDS Integers, Sequences, FiniteSets, TLC

VARIABLES
  codeLines,   \* CodeFile.codeLines: the sequence of CodeLine records
  pc,          \* which pass of the caller is running
  idx,         \* position of the running loop in codeLines
  curIndent,   \* fixIndentation: the depth counter
  inConti,     \* identifyContinuations: the carried flag
  inBlock,     \* transformDoxygenBlocks: the carried flag
  indent,      \* fixIndentation: argument, the indentation unit
  contiIndent, \* fixIndentation: argument, extra levels of a continuation
  levels,      \* fixIndentation: the depth counter at each setIndentation call
  length       \* transformDoxygenBlocks: argument, the width of a separator line

vars == <<codeLines, pc, idx, curIndent, inConti, inBlock, indent, contiIndent, levels,
          length>>

----------------------------------------------------------------------------
(* Characters and character classes of Python's re module *)

\* \s
WhiteSpace == {" ", "\t", "\n", "\r"}

\* \d
Digits == {"0", "1", "2", "3", "4", "5", "6", "7", "8", "9"}

UpperLetters == <<"A", "B", "C", "D", "E", "F", "G", "H", "I", "J", "K", "L", "M",
                  "N", "O", "P", "Q", "R", "S", "T", "U", "V", "W", "X", "Y", "Z">>

LowerLetters == <<"a", "b", "c", "d", "e", "f", "g", "h", "i", "j", "k", "l", "m",
                  "n", "o", "p", "q", "r", "s", "t", "u", "v", "w", "x", "y", "z">>

Letters == {UpperLetters[i] : i \in 1..26} \cup {LowerLetters[i] : i \in 1..26}

\* \w
WordChars == Letters \cup Digits \cup {"_"}

\* (?i): the lower-case form of a character
ToLower(c) ==
  IF \E i \in 1..26 : UpperLetters[i] = c
  THEN LowerLetters[CHOOSE i \in 1..26 : UpperLetters[i] = c]
  ELSE c

----------------------------------------------------------------------------
(* Strings as sequences *)

Take(s, n) == SubSeq(s, 1, n)

Drop(s, n) == SubSeq(s, n + 1, Len(s))

\* the number of leading characters of s that lie in S
LeadingIn(s, S) ==
  IF \A i \in 1..Len(s) : s[i] \in S
  THEN Len(s)
  ELSE (CHOOSE i \in 1..Len(s) : s[i] \notin S /\ \A j \in 1..(i - 1) : s[j] \in S) - 1

\* the number of trailing characters of s that lie in S
TrailingIn(s, S) ==
  IF \A i \in 1..Len(s) : s[i] \in S
  THEN Len(s)
  ELSE Len(s) - (CHOOSE i \in 1..Len(s) : s[i] \notin S /\ \A j \in (i + 1)..Len(s) : s[j] \in S)

\* str.lstrip()
LStrip(s) == Drop(s, LeadingIn(s, WhiteSpace))

\* the number of leading characters of s that do not lie in S
LeadingNotIn(s, S) ==
  IF \A i \in 1..Len(s) : s[i] \notin S
  THEN Len(s)
  ELSE (CHOOSE i \in 1..Len(s) : s[i] \in S /\ \A j \in 1..(i - 1) : s[j] \notin S) - 1

\* str.count(c)
CountOf(s, c) == Cardinality({i \in 1..Len(s) : s[i] = c})

\* the position of the first occurrence of c in s, 0 when there is none
FirstIndex(s, c) ==
  IF \E i \in 1..Len(s) : s[i] = c
  THEN CHOOSE i \in 1..Len(s) : s[i] = c /\ \A j \in 1..(i - 1) : s[j] # c
  ELSE 0

\* str * n
RECURSIVE Repeat(_, _)
Repeat(s, n) == IF n <= 0 THEN <<>> ELSE s \o Repeat(s, n - 1)

Max(a, b) == IF a >= b THEN a ELSE b

----------------------------------------------------------------------------
(* CodeLine.__init__ *)

CodeLine(line, isFreeForm) ==
  [ isFreeForm     |-> isFreeForm,
    remarks        |-> <<>>,
    line           |-> line,
    origCodeLength |-> 0,
    preProc        |-> <<>>,
    leftSpace      |-> <<>>,
    code           |-> <<>>,
    midSpace       |-> <<>>,
    comment        |-> <<>>,
    rightSpace     |-> <<>>,
    fixedComment   |-> <<>>,
    fixedLabel     |-> <<>>,
    fixedCont      |-> <<>>,
    freeLabel      |-> <<>>,
    freeContBeg    |-> <<>>,
    freeContEnd    |-> <<>>,
    isContinued    |-> FALSE,
    isContinuation |-> FALSE ]

----------------------------------------------------------------------------
(* CodeLine.parseLine, step by step *)

\* re.match(r"(.*?)(\s+)$", line): the trailing whitespace is split off; "." does
\* not match a line feed, so the part in front of it must hold none
StripRightSpace(l) ==
  LET n == TrailingIn(l.line, WhiteSpace)
      k == Len(l.line) - n
  IN  IF n > 0 /\ \A i \in 1..k : l.line[i] # "\n"
      THEN [l EXCEPT !.rightSpace = Drop(l.line, k), !.line = Take(l.line, k)]
      ELSE l

\* the fixed-form comment symbols of column 1
FixedCommentMarkers == {"c", "C", "*", "!"}

\* re.match(r"\s{0,4}(\d+)(.*?)$", line)
MatchesFixedLabel(s) ==
  LET w == LeadingIn(s, WhiteSpace)
  IN  w <= 4 /\ Len(s) > w /\ s[w + 1] \in Digits

\* a slip: a '0' in column 6 is taken for a continuation marker
MatchesFixedContZeroToo(s) ==
  Len(s) > 5 /\ s[1] # "\t" /\ s[6] # " "

\* elif len(line) > 5 and line[0] != "\t" and line[5] not in [' ', '0']
MatchesFixedCont(s) ==
  Len(s) > 5 /\ s[1] # "\t" /\ s[6] \notin {" ", "0"}

\* the fixed-form label and continuation checks
ParseFixedColumns(l) ==
  IF MatchesFixedLabel(l.line)
  THEN LET w == LeadingIn(l.line, WhiteSpace)
           d == LeadingIn(Drop(l.line, w), Digits)
       IN  [l EXCEPT !.fixedLabel = SubSeq(l.line, w + 1, w + d),
                     !.line = Drop(l.line, w + d)]
  ELSE IF MatchesFixedCont(l.line)
  THEN [l EXCEPT !.fixedCont = Take(l.line, 6),
                 !.isContinuation = TRUE,
                 !.line = Drop(l.line, 6)]
  ELSE l

\* re.match(r"(\s+)(.*?)$", line)
StripLeftSpace(l) ==
  LET n == LeadingIn(l.line, WhiteSpace)
  IN  IF n > 0
      THEN [l EXCEPT !.leftSpace = Take(l.line, n), !.line = Drop(l.line, n)]
      ELSE l

\* re.match(r"(.*?)(\s*)(!.*?)$", line)
SplitFreeComment(l) ==
  LET p == FirstIndex(l.line, "!")
      m == TrailingIn(Take(l.line, p - 1), WhiteSpace)
  IN  IF p > 0
      THEN [l EXCEPT !.midSpace = SubSeq(l.line, p - m, p - 1),
                     !.comment = Drop(l.line, p - 1),
                     !.line = Take(l.line, p - 1 - m)]
      ELSE l

\* re.match(r"(\d+\s+)(.*?)$", line)
SplitFreeLabel(l) ==
  LET d == LeadingIn(l.line, Digits)
      w == LeadingIn(Drop(l.line, d), WhiteSpace)
  IN  IF d > 0 /\ w > 0
      THEN [l EXCEPT !.freeLabel = Take(l.line, d + w), !.line = Drop(l.line, d + w)]
      ELSE l

\* re.match(r"(&\s*)(.*?)$", line)
SplitFreeCont(l) ==
  IF Len(l.line) > 0 /\ l.line[1] = "&"
  THEN LET w == LeadingIn(Drop(l.line, 1), WhiteSpace)
       IN  [l EXCEPT !.freeContBeg = Take(l.line, 1 + w),
                     !.isContinuation = TRUE,
                     !.line = Drop(l.line, 1 + w)]
  ELSE l

\* the end of parseLine: what is left is the code
FinishParse(l) ==
  [l EXCEPT !.code = l.line, !.line = <<>>, !.origCodeLength = Len(l.line)]

\* parseLine from the left-whitespace step on
ParseBody(l) ==
  LET a == SplitFreeComment(StripLeftSpace(l))
      b == IF a.isFreeForm THEN SplitFreeCont(SplitFreeLabel(a)) ELSE a
  IN  FinishParse(b)

parseLine(l0) ==
  LET l == StripRightSpace(l0)
  IN  IF Len(l.line) = 0 THEN l
      ELSE IF l.line[1] = "#" THEN [l EXCEPT !.preProc = l.line]
      ELSE IF ~l.isFreeForm /\ l.line[1] \in FixedCommentMarkers
           THEN [l EXCEPT !.fixedComment = l.line]
      ELSE IF ~l.isFreeForm THEN ParseBody(ParseFixedColumns(l))
      ELSE ParseBody(l)

hasCode(l) == Len(l.code) > 0

----------------------------------------------------------------------------
(* CodeLine.buildFullLine *)

buildFullLine(l) ==
  l.preProc \o l.fixedComment \o l.fixedLabel \o l.fixedCont \o l.leftSpace
    \o l.freeLabel \o l.freeContBeg \o l.code \o l.freeContEnd \o l.midSpace
    \o l.comment \o l.rightSpace

----------------------------------------------------------------------------
(* CodeLine.convertFixedToFree *)

\* a slip: the comment text keeps its leading whitespace
ConvertFixedCommentUnstripped(l) ==
  LET text == LStrip(Drop(l.fixedComment, 1))
  IN  [l EXCEPT !.comment = IF Len(text) > 0
                            THEN <<"!", " ">> \o Drop(l.fixedComment, 1) ELSE @,
                !.fixedComment = <<>>]

\* the comment branch: a fixed comment becomes a free comment
ConvertFixedComment(l) ==
  LET text == LStrip(Drop(l.fixedComment, 1))
  IN  [l EXCEPT !.comment = IF Len(text) > 0 THEN <<"!", " ">> \o text ELSE @,
                !.fixedComment = <<>>]

\* a slip: the trailing marker is written on the continuation line itself
\* instead of on the line it continues
ConvertFixedColumnsOnContinuation(l) ==
  LET a == IF Len(l.fixedLabel) > 0
           THEN [l EXCEPT !.freeLabel = l.fixedLabel \o <<" ">>, !.fixedLabel = <<>>]
           ELSE l
      b == IF Len(a.fixedCont) > 0
           THEN [a EXCEPT !.freeContBeg = IF a.isContinuation THEN <<"&">> ELSE @,
                          !.fixedCont = <<>>]
           ELSE a
  IN  IF b.isContinuation THEN [b EXCEPT !.freeContEnd = <<"&">>] ELSE b

\* the label, continuation and continued-line branches
ConvertFixedColumns(l) ==
  LET a == IF Len(l.fixedLabel) > 0
           THEN [l EXCEPT !.freeLabel = l.fixedLabel \o <<" ">>, !.fixedLabel = <<>>]
           ELSE l
      b == IF Len(a.fixedCont) > 0
           THEN [a EXCEPT !.freeContBeg = IF a.isContinuation THEN <<"&">> ELSE @,
                          !.fixedCont = <<>>]
           ELSE a
  IN  IF b.isContinued THEN [b EXCEPT !.freeContEnd = <<"&">>] ELSE b

\* a slip: no early return for a line that is free already
convertFixedToFreeUnguarded(l) ==
  LET f == [l EXCEPT !.isFreeForm = TRUE]
  IN  IF Len(l.fixedComment) > 0 THEN ConvertFixedComment(f)
      ELSE ConvertFixedColumns(f)

convertFixedToFree(l) ==
  IF l.isFreeForm THEN l
  ELSE LET f == [l EXCEPT !.isFreeForm = TRUE]
       IN  IF Len(l.fixedComment) > 0 THEN ConvertFixedComment(f)
           ELSE ConvertFixedColumns(f)

----------------------------------------------------------------------------
(* The block keywords: CodeLine.increasesIndentAfter, decreasesIndentBefore *)

\* (?i): the word kw, given in lower case, stands in s from position i on
HasWordAt(s, i, kw) ==
  /\ i >= 1
  /\ i + Len(kw) - 1 <= Len(s)
  /\ \A k \in 1..Len(kw) : ToLower(s[i + k - 1]) = kw[k]

IsWordCharAt(s, i) == i >= 1 /\ i <= Len(s) /\ s[i] \in WordChars

\* \b between the positions n and n + 1 of s
BoundaryAfter(s, n) == IsWordCharAt(s, n) # IsWordCharAt(s, n + 1)

\* (?i)kw\b at the start of s
StartsWithWord(s, kw) == HasWordAt(s, 1, kw) /\ BoundaryAfter(s, Len(kw))

KwDo == <<"d", "o">>
KwIf == <<"i", "f">>
KwThen == <<"t", "h", "e", "n">>
KwSubroutine == <<"s", "u", "b", "r", "o", "u", "t", "i", "n", "e">>
KwModule == <<"m", "o", "d", "u", "l", "e">>
KwType == <<"t", "y", "p", "e">>
KwInterface == <<"i", "n", "t", "e", "r", "f", "a", "c", "e">>
KwBlock == <<"b", "l", "o", "c", "k">>
KwData == <<"d", "a", "t", "a">>
KwFunction == <<"f", "u", "n", "c", "t", "i", "o", "n">>
KwWhere == <<"w", "h", "e", "r", "e">>
KwElse == <<"e", "l", "s", "e">>
KwElseIf == <<"e", "l", "s", "e", "i", "f">>
KwEnd == <<"e", "n", "d">>
KwEndIf == <<"e", "n", "d", "i", "f">>
KwEndDo == <<"e", "n", "d", "d", "o">>
KwEndWhere == <<"e", "n", "d", "w", "h", "e", "r", "e">>

\* "." of a regular expression matches every character of s from i to j
NoLineFeedIn(s, i, j) == \A k \in i..j : s[k] # "\n"

\* re.match(r"(?i)(\w+:\s+)?do\b", code)
MatchesDo(s) ==
  \/ StartsWithWord(s, KwDo)
  \/ LET n == LeadingIn(s, WordChars)
         w == LeadingIn(Drop(s, n + 1), WhiteSpace)
     IN  /\ n > 0 /\ Len(s) > n /\ s[n + 1] = ":" /\ w > 0
         /\ StartsWithWord(Drop(s, n + 1 + w), KwDo)

\* re.match(r"(?i)if\b.*?\bthen\b", code)
MatchesIfThen(s) ==
  /\ StartsWithWord(s, KwIf)
  /\ \E p \in 3..Len(s) :
       /\ HasWordAt(s, p, KwThen)
       /\ BoundaryAfter(s, p - 1)
       /\ BoundaryAfter(s, p + 3)
       /\ NoLineFeedIn(s, 3, p - 1)

\* re.match(r"(?i)type\s*[^\s\(]", code)
MatchesType(s) ==
  /\ HasWordAt(s, 1, KwType)
  /\ LET w == LeadingIn(Drop(s, 4), WhiteSpace)
     IN  Len(s) > 4 + w /\ s[5 + w] # "("

\* re.match(r"(?i)block\s?data\b", code)
MatchesBlockData(s) ==
  /\ HasWordAt(s, 1, KwBlock)
  /\ \/ StartsWithWord(Drop(s, 5), KwData)
     \/ Len(s) > 5 /\ s[6] \in WhiteSpace /\ StartsWithWord(Drop(s, 6), KwData)

\* re.match(r"(?i)where\b.*?\)$", code); "$" also matches in front of a line
\* feed that ends the string
MatchesWhere(s) ==
  /\ StartsWithWord(s, KwWhere)
  /\ \/ Len(s) > 5 /\ s[Len(s)] = ")" /\ NoLineFeedIn(s, 6, Len(s))
     \/ Len(s) > 6 /\ s[Len(s)] = "\n" /\ s[Len(s) - 1] = ")"
          /\ NoLineFeedIn(s, 6, Len(s) - 1)

\* re.match(r"(?i)else(if)?\b", code)
MatchesElse(s) == StartsWithWord(s, KwElseIf) \/ StartsWithWord(s, KwElse)

increasesIndentAfter(l) ==
  \/ MatchesDo(l.code)
  \/ MatchesIfThen(l.code)
  \/ StartsWithWord(l.code, KwSubroutine)
  \/ StartsWithWord(l.code, KwModule)
  \/ MatchesType(l.code)
  \/ StartsWithWord(l.code, KwInterface)
  \/ MatchesBlockData(l.code)
  \/ StartsWithWord(l.code, KwFunction)
  \/ MatchesWhere(l.code)
  \/ MatchesElse(l.code)

\* re.match(r"(?i)(end(if|do|where)?|else(if)?)\b", code)
decreasesIndentBefore(l) ==
  \E kw \in {KwEnd, KwEndIf, KwEndDo, KwEndWhere, KwElse, KwElseIf} :
    StartsWithWord(l.code, kw)

----------------------------------------------------------------------------
(* CodeLine.setIndentation and the body of CodeFile.fixIndentation *)

setIndentation(l, level, unit) ==
  IF hasCode(l) \/ Len(l.comment) > 0
  THEN [l EXCEPT !.leftSpace = Repeat(unit, level)]
  ELSE [l EXCEPT !.leftSpace = <<>>]

NegativeRemark == "Negative indentation level reached."

\* if codeLine.decreasesIndentBefore(): curIndent -= 1
DepthBefore(l, cur) == IF decreasesIndentBefore(l) THEN cur - 1 ELSE cur

\* a slip: the depth is not reset after an underflow
ClampDepthMissing(d) == d

\* if curIndent < 0: (remark); curIndent = 0
ClampDepth(d) == IF d < 0 THEN 0 ELSE d

\* if curIndent < 0: codeLine.remarks.append(...)
RemarkUnderflow(l, d) ==
  IF d < 0 THEN [l EXCEPT !.remarks = Append(@, NegativeRemark)] ELSE l

\* a slip: the extra levels go to the continued line, not to the continuation
LevelOfContinued(l, depth, extra) == depth + (IF l.isContinued THEN extra ELSE 0)

\* curIndent + (contiIndent if codeLine.isContinuation else 0)
LevelOf(l, depth, extra) == depth + (IF l.isContinuation THEN extra ELSE 0)

\* a slip: the depth is raised for the opening line itself, not after it
DepthAfterUnraised(l, depth) == depth

\* if codeLine.increasesIndentAfter(): curIndent += 1
DepthAfter(l, depth) == IF increasesIndentAfter(l) THEN depth + 1 ELSE depth

----------------------------------------------------------------------------
(* The rewriting of old-style Doxygen blocks: CodeFile.transformDoxygenBlocks. *)
(* A comment region holds no line feed, so "." matches each of its characters. *)

\* codeLine.comment.count("c") == 70
SeparatorCount == 70

\* codeLine.comment.count("-") == 60
DashCount == 60

IsSeparator(l) == CountOf(l.comment, "c") = SeparatorCount

\* "!" + "-" * (length - 1)
SeparatorLine(len) == <<"!">> \o Repeat(<<"-">>, len - 1)

\* a slip: a separator line always opens a block
ToggleBlockStuck(b) == TRUE

\* inBlock = not inBlock
ToggleBlock(b) == ~b

\* the characters of s from position i on are exactly those of w
HasTextAt(s, i, w) ==
  /\ i >= 1
  /\ i + Len(w) - 1 <= Len(s)
  /\ \A k \in 1..Len(w) : s[i + k - 1] = w[k]

\* the start of the four patterns: "!\s"
HasCommentStart(c) == Len(c) >= 2 /\ c[1] = "!" /\ c[2] \in WhiteSpace

\* the end of three of the patterns, "\s+c$": the number of whitespace
\* characters in front of the closing c, 0 when the pattern does not match
ClosingSpace(c) ==
  IF Len(c) > 0 /\ c[Len(c)] = "c"
  THEN TrailingIn(Take(c, Len(c) - 1), WhiteSpace)
  ELSE 0

\* re.match(r"!\s(\S+\.\S+)\s+c$", comment): the length of group 1, which
\* starts at position 3
FileNameLen(c) == LeadingNotIn(Drop(c, 2), WhiteSpace)

MatchesFileName(c) ==
  LET n == FileNameLen(c)
  IN  /\ HasCommentStart(c)
      /\ \E q \in 4..(1 + n) : c[q] = "."
      /\ ClosingSpace(c) > 0
      /\ 2 + n + ClosingSpace(c) + 1 = Len(c)

\* re.match(r"!\s>\s+\\(param.*?)$", comment): the position of the backslash
ParamBackslash(c) == 4 + LeadingIn(Drop(c, 3), WhiteSpace)

MatchesParam(c) ==
  /\ HasCommentStart(c)
  /\ Len(c) >= 3 /\ c[3] = ">"
  /\ ParamBackslash(c) > 4
  /\ HasTextAt(c, ParamBackslash(c), <<"\\", "p", "a", "r", "a", "m">>)

\* re.match(r"!\s(\d{4}\.\d{2}\.\d{2})\s-\s(.*?)\s+c$", comment)
MatchesDate(c) ==
  /\ HasCommentStart(c)
  /\ Len(c) >= 17
  /\ \A k \in {3, 4, 5, 6, 8, 9, 11, 12} : c[k] \in Digits
  /\ c[7] = "." /\ c[10] = "."
  /\ c[13] \in WhiteSpace /\ c[14] = "-" /\ c[15] \in WhiteSpace
  /\ c[Len(c)] = "c"
  /\ c[Len(c) - 1] \in WhiteSpace

\* group 2 of the date pattern: the shortest text from position 16 on that
\* leaves only whitespace in front of the closing c
DateText(c) ==
  SubSeq(c, 16, Len(c) - 1 - TrailingIn(SubSeq(c, 16, Len(c) - 1), WhiteSpace))

\* re.match(r"!\s(.*?)\s\[(.*?@.*?\..*?)\]\s+c$", comment): the closing
\* bracket is the last character in front of the whitespace and the closing c
MailClose(c) == Len(c) - 1 - ClosingSpace(c)

\* an opening bracket at a can start group 2
IsMailOpen(c, a) ==
  /\ c[a] = "[" /\ c[a - 1] \in WhiteSpace
  /\ \E i \in (a + 1)..(MailClose(c) - 1), j \in (a + 1)..(MailClose(c) - 1) :
       i < j /\ c[i] = "@" /\ c[j] = "."

MatchesMail(c) ==
  /\ HasCommentStart(c)
  /\ ClosingSpace(c) > 0
  /\ MailClose(c) >= 1 /\ c[MailClose(c)] = "]"
  /\ \E a \in 4..(MailClose(c) - 1) : IsMailOpen(c, a)

\* group 1 is lazy: the first opening bracket that can start group 2
MailOpen(c) ==
  CHOOSE a \in 4..(MailClose(c) - 1) :
    IsMailOpen(c, a) /\ \A b \in 4..(a - 1) : ~IsMailOpen(c, b)

TagLine == <<"!", ">">>
TagFile == <<"!", ">", " ", "@", "f", "i", "l", "e", " ">>
TagAt == <<"!", ">", " ", "@">>
TagDate == <<"!", ">", " ", "@", "d", "a", "t", "e", " ">>
TagAuthors == <<"!", ">", " ", "@", "a", "u", "t", "h", "o", "r", "s", " ">>
TagBrief == <<"!", ">", " ", "@", "b", "r", "i", "e", "f", " ">>

\* the comment a line inside a block gets: the first pattern that matches wins
BlockComment(c) ==
  IF CountOf(c, "-") = DashCount THEN TagLine
  ELSE IF MatchesFileName(c) THEN TagFile \o SubSeq(c, 3, 2 + FileNameLen(c))
  ELSE IF MatchesParam(c) THEN TagAt \o Drop(c, ParamBackslash(c))
  ELSE IF MatchesDate(c)
       THEN TagDate \o SubSeq(c, 3, 12) \o <<" ", "-", "-", " ">> \o DateText(c)
  ELSE IF MatchesMail(c)
       THEN TagAuthors \o SubSeq(c, 3, MailOpen(c) - 2) \o <<" ", "<">>
              \o SubSeq(c, MailOpen(c) + 1, MailClose(c) - 1) \o <<">">>
  ELSE TagBrief \o LStrip(Drop(c, 3))

\* the body of the loop of transformDoxygenBlocks, for a line met with the
\* carried flag b
DoxygenLine(l, b, len) ==
  IF IsSeparator(l) THEN [l EXCEPT !.comment = SeparatorLine(len)]
  ELSE IF b THEN [l EXCEPT !.comment = BlockComment(l.comment)]
  ELSE l

DoxygenInBlock(l, b) == IF IsSeparator(l) THEN ToggleBlock(b) ELSE b

----------------------------------------------------------------------------
(* The rewrites of the code region: CodeLine.fixDeclarationsInCode and       *)
(* CodeLine.addSpacesInCode, and CodeLine.swallowLengthChange after them     *)

KwReal == <<"r", "e", "a", "l">>
KwInout == <<"i", "n", "o", "u", "t">>
KwWhile == <<"w", "h", "i", "l", "e">>

\* \s? in front of position p: 1 when the character there is whitespace
OptionalSpace(s, p) == IF p <= Len(s) /\ s[p] \in WhiteSpace THEN 1 ELSE 0

\* re.sub(r"(?i)^\breal\b\s?\*\s?(\d+)\b", r"real(\1)", code): the position of
\* the star, the position of the first digit and the number of digits
RealStar(s) == 5 + OptionalSpace(s, 5)

RealDigits(s) == RealStar(s) + 1 + OptionalSpace(s, RealStar(s) + 1)

RealDigitCount(s) == LeadingIn(Drop(s, RealDigits(s) - 1), Digits)

MatchesRealStar(s) ==
  /\ StartsWithWord(s, KwReal)
  /\ RealStar(s) <= Len(s) /\ s[RealStar(s)] = "*"
  /\ RealDigitCount(s) > 0
  /\ BoundaryAfter(s, RealDigits(s) + RealDigitCount(s) - 1)

fixDeclarationsInCode(l) ==
  IF MatchesRealStar(l.code)
  THEN [l EXCEPT !.code =
          KwReal \o <<"(">>
            \o SubSeq(l.code, RealDigits(l.code),
                      RealDigits(l.code) + RealDigitCount(l.code) - 1)
            \o <<")">>
            \o Drop(l.code, RealDigits(l.code) + RealDigitCount(l.code) - 1)]
  ELSE l

\* the length of the match of a pattern of addSpacesInCode at position i of s,
\* 0 when it does not match there
MatchLen(rule, s, i) ==
  CASE rule = "quote" ->
         \* ([^\\]|^)(\")
         IF i < Len(s) /\ s[i] # "\\" /\ s[i + 1] = "\"" THEN 2
         ELSE IF i = 1 /\ s[1] = "\"" THEN 1
         ELSE 0
    [] rule = "if" ->
         \* (?i)\b(if|where)\(
         IF ~BoundaryAfter(s, i - 1) THEN 0
         ELSE IF HasWordAt(s, i, KwIf) /\ HasTextAt(s, i + 2, <<"(">>) THEN 3
         ELSE IF HasWordAt(s, i, KwWhere) /\ HasTextAt(s, i + 5, <<"(">>) THEN 6
         ELSE 0
    [] rule = "then" ->
         \* (?i)\)then\b
         IF s[i] = ")" /\ HasWordAt(s, i + 1, KwThen) /\ BoundaryAfter(s, i + 4)
         THEN 5 ELSE 0
    [] rule = "end" ->
         \* (?i)\bend(if|do|while)\b
         IF ~(BoundaryAfter(s, i - 1) /\ HasWordAt(s, i, KwEnd)) THEN 0
         ELSE IF HasWordAt(s, i + 3, KwIf) /\ BoundaryAfter(s, i + 4) THEN 5
         ELSE IF HasWordAt(s, i + 3, KwDo) /\ BoundaryAfter(s, i + 4) THEN 5
         ELSE IF HasWordAt(s, i + 3, KwWhile) /\ BoundaryAfter(s, i + 7) THEN 8
         ELSE 0
    [] rule = "inout" ->
         \* (?i)\binout\b
         IF BoundaryAfter(s, i - 1) /\ HasWordAt(s, i, KwInout)
              /\ BoundaryAfter(s, i + 4)
         THEN 5 ELSE 0

\* what the match of length n at position i of s is replaced by
Replacement(rule, s, i, n) ==
  CASE rule = "quote" -> IF n = 2 THEN <<s[i], "a", "\"">> ELSE <<"a", "\"">>
    [] rule = "if" -> SubSeq(s, i, i + n - 2) \o <<" ", "(">>
    [] rule = "then" -> <<")", " ">> \o KwThen
    [] rule = "end" -> KwEnd \o <<" ">> \o SubSeq(s, i + 3, i + n - 1)
    [] rule = "inout" -> <<"i", "n", " ", "o", "u", "t">>

\* re.sub: the matches of s from position i on, left to right, replaced
RECURSIVE SubFrom(_, _, _)
SubFrom(rule, s, i) ==
  IF i > Len(s) THEN <<>>
  ELSE LET n == MatchLen(rule, s, i)
       IN  IF n > 0
           THEN Replacement(rule, s, i, n) \o SubFrom(rule, s, i + n)
           ELSE <<s[i]>> \o SubFrom(rule, s, i + 1)

Sub(rule, s) == SubFrom(rule, s, 1)

\* re.split(r"a\"", marked)
RECURSIVE SplitAtMarks(_)
SplitAtMarks(s) ==
  IF \E k \in 1..(Len(s) - 1) : s[k] = "a" /\ s[k + 1] = "\""
  THEN LET k == CHOOSE k \in 1..(Len(s) - 1) :
                  /\ s[k] = "a" /\ s[k + 1] = "\""
                  /\ \A j \in 1..(k - 1) : ~(s[j] = "a" /\ s[j + 1] = "\"")
       IN  <<Take(s, k - 1)>> \o SplitAtMarks(Drop(s, k + 1))
  ELSE <<s>>

\* "\"".join(parts)
RECURSIVE JoinWithQuote(_)
JoinWithQuote(parts) ==
  IF Len(parts) = 1 THEN parts[1]
  ELSE parts[1] \o <<"\"">> \o JoinWithQuote(Tail(parts))

\* the rewrites of a part outside of quotation marks, in the order of the code
SpacedPart(part) == Sub("inout", Sub("end", Sub("then", Sub("if", part))))

addSpacesInCode(l) ==
  LET parts == SplitAtMarks(Sub("quote", l.code))
  IN  [l EXCEPT !.code =
         JoinWithQuote([k \in 1..Len(parts) |->
                          IF k % 2 = 1 THEN SpacedPart(parts[k]) ELSE parts[k]])]

\* a slip: the change of length is added to the space, not taken from it
SpacesLeftAdded(l) == Max(1, Len(l.midSpace) + (Len(l.code) - l.origCodeLength))

\* numLeftSpaces = max(1, len(self.midSpace) - lengthChange)
SpacesLeft(l) == Max(1, Len(l.midSpace) - (Len(l.code) - l.origCodeLength))

swallowLengthChange(l) ==
  IF Len(l.comment) = 0 \/ ~hasCode(l) THEN l
  ELSE IF Len(l.code) - l.origCodeLength = 0 THEN l
  ELSE [l EXCEPT !.midSpace = Repeat(<<" ">>, SpacesLeft(l))]

----------------------------------------------------------------------------
(* Inputs: the lines file.readlines() can return *)

\* the longest line body of the single-line specification
MaxLineLen == 6

\* the characters a line may start with
FirstChars == {" ", "1", "0", "X", "C", "#", "!", "&", "\t"}

\* the characters of the rest of a line
RestChars == {" ", "0", "X", "!"}

\* every sequence over S of length at most n
SeqsUpTo(S, n) == UNION {[1..k -> S] : k \in 0..n}

\* a line ends with a line feed, except possibly the last line of a file
Terminators == {<<>>, <<"\n">>}

RawLines ==
  {b \o t : b \in {<<>>} \cup {<<f>> \o r : f \in FirstChars,
                                         r \in SeqsUpTo(RestChars, MaxLineLen - 1)},
            t \in Terminators}

----------------------------------------------------------------------------
(* The passes a caller runs over the lines *)

\* the values the loop variables have while their pass is not running
Idle ==
  /\ curIndent = 0 /\ inConti = FALSE /\ inBlock = FALSE
  /\ indent = <<>> /\ contiIndent = 0 /\ levels = <<>> /\ length = 0

UnchangedLocals ==
  UNCHANGED <<curIndent, inConti, inBlock, indent, contiIndent, levels, length>>

\* CodeFile.__init__: one unparsed CodeLine per line of the file
InitFile(lines, isFreeForm) ==
  /\ codeLines = [i \in 1..Len(lines) |-> CodeLine(lines[i], isFreeForm)]
  /\ pc = "parse"
  /\ idx = 1
  /\ Idle

\* the caller parses every line, first to last
ParseLine ==
  /\ pc = "parse"
  /\ codeLines' = [codeLines EXCEPT ![idx] = parseLine(@)]
  /\ idx' = IF idx = Len(codeLines) THEN 1 ELSE idx + 1
  /\ pc' = IF idx = Len(codeLines) THEN "parsed" ELSE "parse"
  /\ UnchangedLocals

\* CodeLine.verifyContinuation
verifyContinuation(l) ==
  IF ~hasCode(l) THEN [l EXCEPT !.isContinuation = FALSE] ELSE l

\* the caller may verify the continuation of every line, after parsing and
\* before the continuations are identified
VerifyContinuation ==
  /\ \/ pc = "parsed" /\ idx = 1
     \/ pc = "verify"
  /\ codeLines' = [codeLines EXCEPT ![idx] = verifyContinuation(@)]
  /\ idx' = IF idx = Len(codeLines) THEN 1 ELSE idx + 1
  /\ pc' = IF idx = Len(codeLines) THEN "verified" ELSE "verify"
  /\ UnchangedLocals

\* identifyContinuations, the loop body's first statement: is it a code line
\* and is it followed by a continuation?
IsContinuedHere(l, conti) == hasCode(l) /\ conti

\* a slip: the carried flag is not reset at the continued line
NextInContiNoReset(l, conti) == l.isContinuation \/ conti

\* identifyContinuations: the flag carried to the line in front
NextInConti(l, conti) ==
  IF l.isContinuation THEN TRUE
  ELSE IF IsContinuedHere(l, conti) THEN FALSE
  ELSE conti

\* CodeFile.identifyContinuations: one iteration of the loop over the reversed
\* lines; the first one starts with inConti = False
IdentifyContinuations ==
  /\ pc \in {"parsed", "verified", "conti"}
  /\ LET i == IF pc = "conti" THEN idx ELSE Len(codeLines)
         conti == IF pc = "conti" THEN inConti ELSE FALSE
         l == codeLines[i]
     IN  /\ codeLines' = [codeLines EXCEPT
                            ![i].isContinued = IF IsContinuedHere(l, conti) THEN TRUE ELSE @]
         /\ inConti' = IF i = 1 THEN FALSE ELSE NextInConti(l, conti)
         /\ idx' = IF i = 1 THEN 1 ELSE i - 1
         /\ pc' = IF i = 1 THEN "contiDone" ELSE "conti"
  /\ UNCHANGED <<curIndent, inBlock, indent, contiIndent, levels, length>>

\* the caller converts every line, first to last, once the continuations are
\* identified
ConvertFixedToFree ==
  /\ \/ pc \in {"contiDone", "converted"} /\ idx = 1
     \/ pc = "convert"
  /\ codeLines' = [codeLines EXCEPT ![idx] = convertFixedToFree(@)]
  /\ idx' = IF idx = Len(codeLines) THEN 1 ELSE idx + 1
  /\ pc' = IF idx = Len(codeLines) THEN "converted" ELSE "convert"
  /\ UnchangedLocals

----------------------------------------------------------------------------
(* One line, parsed and converted *)

InitLine == \E raw \in RawLines, isFreeForm \in BOOLEAN : InitFile(<<raw>>, isFreeForm)

NextLine == ParseLine \/ IdentifyContinuations \/ ConvertFixedToFree

SpecLine == InitLine /\ [][NextLine]_vars

----------------------------------------------------------------------------
(* A file of several lines: parsing, continuations, conversion *)

\* the most lines of a file
MaxLines == 3

\* lines of a file: a statement, a continuation line with and without code, a
\* comment, an empty line, a labelled statement
ContiLines ==
  { <<" ", " ", " ", " ", " ", " ", "X", "\n">>,
    <<" ", " ", " ", " ", " ", "&", "X", "\n">>,
    <<" ", " ", " ", " ", " ", "&", "\n">>,
    <<"C", " ", "x", "\n">>,
    <<"\n">>,
    <<" ", "1", " ", "X", "\n">> }

\* every non-empty sequence over S of length at most n
FilesUpTo(S, n) == UNION {[1..k -> S] : k \in 1..n}

InitConti ==
  \E lines \in FilesUpTo(ContiLines, MaxLines), isFreeForm \in BOOLEAN :
    InitFile(lines, isFreeForm)

NextConti == ParseLine \/ VerifyContinuation \/ IdentifyContinuations \/ ConvertFixedToFree

SpecConti == InitConti /\ [][NextConti]_vars

----------------------------------------------------------------------------
(* A fixed-layout file taken through the passes in their order: parsing,   *)
(* continuations, conversion                                               *)

\* lines of a fixed-layout file: a statement, a continuation line with and
\* without code, a comment, an empty line, a labelled statement, a '0' in
\* column 6, a preprocessor line, a '!' in column 6, a comment behind blanks,
\* a line that starts with a tab, a label in front of column 6
PairingLines ==
  { <<" ", " ", " ", " ", " ", " ", "X", "\n">>,
    <<" ", " ", " ", " ", " ", "&", "X", "\n">>,
    <<" ", " ", " ", " ", " ", "&", "\n">>,
    <<"C", " ", "x", "\n">>,
    <<"\n">>,
    <<" ", "1", " ", "X", "\n">>,
    <<" ", " ", " ", " ", " ", "0", "X", "\n">>,
    <<"#", "X", "\n">>,
    <<" ", " ", " ", " ", " ", "!", "X", "\n">>,
    <<" ", " ", " ", " ", " ", " ", "!", "X", "\n">>,
    <<"\t", " ", " ", " ", " ", "&", "X", "\n">>,
    <<" ", " ", " ", " ", "1", "&", "X", "\n">> }

InitPairing == \E lines \in FilesUpTo(PairingLines, MaxLines) : InitFile(lines, FALSE)

NextPairing == ParseLine \/ IdentifyContinuations \/ ConvertFixedToFree

SpecPairing == InitPairing /\ [][NextPairing]_vars

----------------------------------------------------------------------------
(* A free-form file: parsing, continuations, indentation *)

\* the indentation units a caller passes
IndentUnits == {<<" ">>, <<" ", " ">>}

\* the most extra levels a caller asks for on continuation lines
MaxContiIndent == 2

\* CodeFile.fixIndentation: one iteration of the loop over the lines; the first
\* one starts with curIndent = 0 and fixes the arguments of the call
FixIndentation ==
  /\ pc \in {"contiDone", "indent"}
  /\ \E unit \in IndentUnits, extra \in 0..MaxContiIndent :
       /\ pc = "indent" => unit = indent /\ extra = contiIndent
       /\ LET i == IF pc = "indent" THEN idx ELSE 1
              cur == IF pc = "indent" THEN curIndent ELSE 0
              l == codeLines[i]
              d == DepthBefore(l, cur)
              depth == ClampDepth(d)
          IN  /\ codeLines' = [codeLines EXCEPT
                  ![i] = setIndentation(RemarkUnderflow(l, d),
                                        LevelOf(l, depth, extra), unit)]
              /\ levels' = Append(levels, depth)
              /\ curIndent' = DepthAfter(l, depth)
              /\ idx' = IF i = Len(codeLines) THEN 1 ELSE i + 1
              /\ pc' = IF i = Len(codeLines) THEN "indentDone" ELSE "indent"
       /\ indent' = unit
       /\ contiIndent' = extra
  /\ UNCHANGED <<inConti, inBlock, length>>

\* lines of a free-form file: block openers and closers, a statement, a
\* continuation, a comment and an empty line
IndentLines ==
  { <<"I", "F", "(", "X", ".", "G", "T", ".", "0", ")", "T", "H", "E", "N", "\n">>,
    <<"E", "N", "D", "I", "F", "\n">>,
    <<"e", "l", "s", "e", "\n">>,
    <<" ", "d", "o", " ", "i", "\n">>,
    <<" ", " ", " ", "X", "=", "1", "\n">>,
    <<"&", "X", "\n">>,
    <<" ", " ", "!", "c", "\n">>,
    <<" ", "\n">> }

InitIndent == \E lines \in FilesUpTo(IndentLines, MaxLines) : InitFile(lines, TRUE)

NextIndent == ParseLine \/ IdentifyContinuations \/ FixIndentation

SpecIndent == InitIndent /\ [][NextIndent]_vars

----------------------------------------------------------------------------
(* A fixed-form file with old-style comment blocks: parsing, continuations, *)
(* conversion, transformDoxygenBlocks                                       *)

\* the separator widths a caller passes
DoxygenLengths == {72, 80}

\* CodeFile.transformDoxygenBlocks: one iteration of the loop over the lines;
\* the first one starts with inBlock = False and fixes the argument of the call
TransformDoxygenBlocks ==
  /\ pc \in {"converted", "doxy"}
  /\ \E len \in DoxygenLengths :
       /\ pc = "doxy" => len = length
       /\ LET i == IF pc = "doxy" THEN idx ELSE 1
              b == IF pc = "doxy" THEN inBlock ELSE FALSE
              l == codeLines[i]
          IN  /\ codeLines' = [codeLines EXCEPT ![i] = DoxygenLine(l, b, len)]
              /\ inBlock' = DoxygenInBlock(l, b)
              /\ idx' = IF i = Len(codeLines) THEN 1 ELSE i + 1
              /\ pc' = IF i = Len(codeLines) THEN "doxyDone" ELSE "doxy"
       /\ length' = len
  /\ UNCHANGED <<curIndent, inConti, indent, contiIndent, levels>>

\* lines of a fixed-form file: a full-width separator, a line one c short of
\* it, a line of dashes, a file name, a parameter, a changelog entry, an
\* author, a description and a statement
DoxygenLines ==
  { Repeat(<<"c">>, SeparatorCount + 1) \o <<"\n">>,
    Repeat(<<"c">>, SeparatorCount) \o <<"\n">>,
    <<"c", " ">> \o Repeat(<<"-">>, DashCount) \o <<" ", "c", "\n">>,
    <<"c", " ", "f", ".", "f", " ", "c", "\n">>,
    <<"c", " ", ">", " ", "\\", "p", "a", "r", "a", "m", " ", "x", "\n">>,
    <<"c", " ", "2", "0", "1", "6", ".", "0", "2", ".", "1", "0", " ", "-", " ", "x",
      " ", "c", "\n">>,
    <<"c", " ", "A", " ", "[", "a", "@", "b", ".", "c", "]", " ", "c", "\n">>,
    <<"c", " ", "t", "e", "x", "t", "\n">>,
    <<" ", " ", " ", " ", " ", " ", "X", "=", "1", "\n">> }

InitDoxygen == \E lines \in FilesUpTo(DoxygenLines, MaxLines) : InitFile(lines, FALSE)

NextDoxygen ==
  ParseLine \/ IdentifyContinuations \/ ConvertFixedToFree \/ TransformDoxygenBlocks

SpecDoxygen == InitDoxygen /\ [][NextDoxygen]_vars

----------------------------------------------------------------------------
(* A free-form file: parsing, the rewrites of the code, swallowLengthChange *)

\* the caller rewrites the declarations of every line, first to last
FixDeclarationsInCode ==
  /\ \/ pc = "parsed" /\ idx = 1
     \/ pc = "declare"
  /\ codeLines' = [codeLines EXCEPT ![idx] = fixDeclarationsInCode(@)]
  /\ idx' = IF idx = Len(codeLines) THEN 1 ELSE idx + 1
  /\ pc' = IF idx = Len(codeLines) THEN "declared" ELSE "declare"
  /\ UnchangedLocals

\* the caller adds the spaces in the code of every line, first to last
AddSpacesInCode ==
  /\ \/ pc \in {"parsed", "declared"} /\ idx = 1
     \/ pc = "space"
  /\ codeLines' = [codeLines EXCEPT ![idx] = addSpacesInCode(@)]
  /\ idx' = IF idx = Len(codeLines) THEN 1 ELSE idx + 1
  /\ pc' = IF idx = Len(codeLines) THEN "spaced" ELSE "space"
  /\ UnchangedLocals

\* after all code changes the caller lets every line swallow its change of
\* length, first to last
SwallowLengthChange ==
  /\ \/ pc \in {"parsed", "declared", "spaced"} /\ idx = 1
     \/ pc = "swallow"
  /\ codeLines' = [codeLines EXCEPT ![idx] = swallowLengthChange(@)]
  /\ idx' = IF idx = Len(codeLines) THEN 1 ELSE idx + 1
  /\ pc' = IF idx = Len(codeLines) THEN "swallowed" ELSE "swallow"
  /\ UnchangedLocals

\* lines of a free-form file: declarations that get shorter and longer, an if
\* statement that gets three characters longer, a statement directly followed
\* by its comment, a string, a statement without comment, a comment alone
CleanLines ==
  { <<"r", "e", "a", "l", "*", "8", " ", "x", " ", "!", "c", "\n">>,
    <<"R", "E", "A", "L", " ", "*", " ", "8", " ", "x", " ", " ", " ", "!", "c", "\n">>,
    <<"i", "f", "(", "i", "n", "o", "u", "t", ")", "t", "h", "e", "n", " ", " ", "!", "c",
      "\n">>,
    <<"E", "N", "D", "I", "F", "!", "c", "\n">>,
    <<"x", "=", "\"", "i", "f", "(", "\"", "\t", "!", "c", "\n">>,
    <<"i", "f", "(", "x", ")", "t", "h", "e", "n", "\n">>,
    <<" ", " ", "!", "c", "\n">> }

InitClean == \E lines \in FilesUpTo(CleanLines, MaxLines) : InitFile(lines, TRUE)

NextClean == ParseLine \/ FixDeclarationsInCode \/ AddSpacesInCode \/ SwallowLengthChange

SpecClean == InitClean /\ [][NextClean]_vars

----------------------------------------------------------------------------
(* Claims about one line *)

\* C1: parsing a line and rebuilding it at once, with nothing in between,
\* returns the original line character for character, in either layout
C1_RoundTripIdentity ==
  [][ParseLine => buildFullLine(codeLines'[idx]) = codeLines[idx].line]_vars

\* a string without its trailing whitespace
WithoutTrailingSpace(s) == Take(s, Len(s) - TrailingIn(s, WhiteSpace))

\* the lines C6 says are continuation lines
C6_IsContinuationLine(raw) ==
  LET s == WithoutTrailingSpace(raw)
  IN  /\ Len(s) >= 6
      /\ s[1] \notin {"#", "\t", "c", "C", "*", "!"}
      /\ ~\E w \in 0..4 : /\ w < Len(s)
                          /\ \A j \in 1..w : s[j] \in WhiteSpace
                          /\ s[w + 1] \in Digits
      /\ s[6] # " " /\ s[6] # "0"

\* C6: parseLine makes a fixed-layout line a continuation, with its first six
\* characters as the marker region, exactly when the stripped line has six or
\* more characters, starts with no '#', comment marker or tab, carries no
\* statement label and has neither a blank nor '0' in column 6
C6_FixedContinuationDetection ==
  [][(ParseLine /\ ~codeLines[idx].isFreeForm) =>
       LET raw == codeLines[idx].line
           l == codeLines'[idx]
       IN  IF C6_IsContinuationLine(raw)
           THEN l.isContinuation /\ l.fixedCont = Take(raw, 6)
           ELSE ~l.isContinuation /\ l.fixedCont = <<>>]_vars

\* C6: a fixed-layout line was parsed as a continuation line
C6_Witness ==
  /\ pc = "contiDone"
  /\ ~codeLines[1].isFreeForm
  /\ codeLines[1].isContinuation
  /\ Len(codeLines[1].fixedCont) = 6
  /\ codeLines[1].fixedCont[6] = "X"

\* C5 as stated: converting a fixed comment line always leaves a non-empty free
\* comment that starts with '!' and ends with the original comment text
C5_CommentAlwaysNonEmpty ==
  [][(ConvertFixedToFree /\ ~codeLines[idx].isFreeForm
        /\ Len(codeLines[idx].fixedComment) > 0) =>
       LET text == LStrip(Drop(codeLines[idx].fixedComment, 1))
           l == codeLines'[idx]
       IN  /\ l.fixedComment = <<>> /\ l.isFreeForm /\ l.code = <<>>
           /\ Len(l.comment) > 0
           /\ l.comment[1] = "!"
           /\ Drop(l.comment, Len(l.comment) - Len(text)) = text]_vars

\* C5 amended: converting a fixed comment line empties the fixed comment region,
\* makes the layout free and leaves the code empty; the free comment becomes
\* "! " and the text after the marker without its leading whitespace when that
\* text is not empty, and stays empty when the line is the marker alone
C5_FixedCommentConversion ==
  [][(ConvertFixedToFree /\ ~codeLines[idx].isFreeForm
        /\ Len(codeLines[idx].fixedComment) > 0) =>
       LET old == codeLines[idx].fixedComment
           k == LeadingIn(Drop(old, 1), WhiteSpace)
           l == codeLines'[idx]
       IN  /\ l.fixedComment = <<>> /\ l.isFreeForm /\ l.code = <<>>
           /\ l.comment = IF Len(old) > 1 + k
                          THEN <<"!", " ">> \o SubSeq(old, 2 + k, Len(old))
                          ELSE <<>>]_vars

\* C5: a fixed comment line with text was converted
C5_Witness ==
  /\ pc = "converted"
  /\ Len(codeLines[1].comment) > 2
  /\ codeLines[1].comment[1] = "!" /\ codeLines[1].comment[2] = " "
  /\ codeLines[1].leftSpace = <<>> /\ codeLines[1].midSpace = <<>>
  /\ codeLines[1].code = <<>> /\ codeLines[1].freeContBeg = <<>>
  /\ codeLines[1].freeLabel = <<>>
  /\ codeLines[1].comment[3] = "X"

----------------------------------------------------------------------------
(* Claims about the continuation pass and the conversion *)

\* no line strictly between lines i and j has code
NoCodeBetween(i, j) == \A k \in (i + 1)..(j - 1) : ~hasCode(codeLines[k])

\* C2 as stated: once the continuations are identified, a line is continued
\* exactly when the nearest following line with code is a continuation
C2_SymmetryWithNextCodeLine ==
  pc = "contiDone" =>
    \A i \in 1..Len(codeLines) :
      codeLines[i].isContinued <=>
        \E j \in (i + 1)..Len(codeLines) :
          /\ hasCode(codeLines[j])
          /\ NoCodeBetween(i, j)
          /\ codeLines[j].isContinuation

\* C2 amended: once the continuations are identified, a line is continued
\* exactly when it has code and some following line is a continuation, with or
\* without code of its own, with no line with code strictly between the two
C2_ContinuationSymmetry ==
  pc = "contiDone" =>
    \A i \in 1..Len(codeLines) :
      codeLines[i].isContinued <=>
        /\ hasCode(codeLines[i])
        /\ \E j \in (i + 1)..Len(codeLines) :
             NoCodeBetween(i, j) /\ codeLines[j].isContinuation

\* C2: a line is continued by a continuation marker that carries no code
C2_Witness ==
  /\ pc = "contiDone"
  /\ Len(codeLines) = 3
  /\ codeLines[1].isContinued
  /\ codeLines[2].isContinuation /\ ~hasCode(codeLines[2])
  /\ hasCode(codeLines[3]) /\ ~codeLines[3].isContinuation

\* C4: converting a line whose layout is free changes nothing, converting a
\* line a second time changes nothing, and no step turns a free line fixed
C4_ConversionIdempotence ==
  [][/\ ConvertFixedToFree =>
          /\ codeLines[idx].isFreeForm => codeLines' = codeLines
          /\ convertFixedToFree(codeLines'[idx]) = codeLines'[idx]
     /\ \A i \in 1..Len(codeLines) :
          codeLines[i].isFreeForm => codeLines'[i].isFreeForm]_vars

\* C4: a fixed line that is continued by the next was converted
C4_Witness ==
  /\ pc = "converted"
  /\ \E i \in 1..Len(codeLines) :
       /\ codeLines[i].freeContEnd = <<"&">>
       /\ codeLines[i].isFreeForm
       /\ codeLines[i].freeLabel = <<"1", " ">>

----------------------------------------------------------------------------
(* Claims about the indentation pass *)

\* the line an iteration of fixIndentation works on, and the depth it starts with
IndentLineNo == IF pc = "indent" THEN idx ELSE 1

IndentDepthIn == IF pc = "indent" THEN curIndent ELSE 0

\* C3: the depth is never negative when setIndentation is called; a closing
\* line met at depth 0 gets exactly one remark and leaves the depth at 0, and
\* no other line and no other iteration gets a remark
C3_IndentationNonNegative ==
  /\ [](\A k \in 1..Len(levels) : levels[k] >= 0)
  /\ [][FixIndentation =>
          LET i == IndentLineNo
              underflow == decreasesIndentBefore(codeLines[i]) /\ IndentDepthIn - 1 < 0
          IN  /\ levels'[i] >= 0
              /\ underflow => levels'[i] = 0
              /\ codeLines'[i].remarks =
                   IF underflow
                   THEN codeLines[i].remarks \o <<"Negative indentation level reached.">>
                   ELSE codeLines[i].remarks
              /\ \A j \in 1..Len(codeLines) :
                   j # i => codeLines'[j].remarks = codeLines[j].remarks]_vars

\* C3: a closing line underflowed and a later closing line did not
C3_Witness ==
  /\ pc = "indentDone"
  /\ Len(codeLines) = 3
  /\ Len(codeLines[1].remarks) = 1
  /\ Len(codeLines[3].remarks) = 0
  /\ decreasesIndentBefore(codeLines[3])
  /\ levels = <<0, 0, 0>>

\* C9: a line after a block-opening line that is not itself block-closing is
\* indented at one depth more than the opening line; a line after a line that
\* opens no block is indented at no greater depth than that line
C9_BlockOpeningIndentation ==
  \A i \in 1..(Len(levels) - 1) :
    /\ (increasesIndentAfter(codeLines[i]) /\ ~decreasesIndentBefore(codeLines[i + 1]))
         => levels[i + 1] = levels[i] + 1
    /\ ~increasesIndentAfter(codeLines[i]) => levels[i + 1] <= levels[i]

\* C9: the line after "IF(X.GT.0)THEN" was indented one level deeper
C9_Witness ==
  /\ pc = "indentDone"
  /\ Len(codeLines) >= 2
  /\ codeLines[1].code = <<"I", "F", "(", "X", ".", "G", "T", ".", "0", ")", "T", "H", "E", "N">>
  /\ hasCode(codeLines[2])
  /\ levels[1] = 0 /\ levels[2] = 1
  /\ codeLines[2].leftSpace = indent

\* C10: after fixIndentation every line with code or a comment has the unit
\* repeated depth times as leading whitespace, depth + contiIndent times when
\* it is a continuation; every other line has none; and the pass changes no
\* region but the leading whitespace and no flag
C10_IndentationWritten ==
  /\ [](pc = "indentDone" =>
         \A i \in 1..Len(codeLines) :
           LET l == codeLines[i]
           IN  IF Len(l.code) > 0 \/ Len(l.comment) > 0
               THEN l.leftSpace =
                      Repeat(indent, IF l.isContinuation
                                     THEN levels[i] + contiIndent ELSE levels[i])
               ELSE l.leftSpace = <<>>)
  /\ [][FixIndentation =>
          \A i \in 1..Len(codeLines) :
            [codeLines'[i] EXCEPT !.leftSpace = codeLines[i].leftSpace,
                                  !.remarks = codeLines[i].remarks] = codeLines[i]]_vars

\* C10: a continuation line inside a block was indented by depth + contiIndent
C10_Witness ==
  /\ pc = "indentDone"
  /\ contiIndent = 2
  /\ indent = <<" ", " ">>
  /\ \E i \in 1..Len(codeLines) :
       /\ codeLines[i].isContinuation
       /\ levels[i] = 1
       /\ Len(codeLines[i].leftSpace) = 6

----------------------------------------------------------------------------
(* Claims about the comment-block pass *)

\* the lines transformDoxygenBlocks has processed so far
DoxygenProcessed ==
  IF pc = "doxy" THEN 1..(idx - 1)
  ELSE IF pc = "doxyDone" THEN 1..Len(codeLines)
  ELSE {}

\* the separator lines among them: the pass has rewritten each to "!---...-"
SeparatorsProcessed ==
  Cardinality({j \in DoxygenProcessed :
                 codeLines[j].comment = <<"!">> \o Repeat(<<"-">>, length - 1)})

\* C8: at every point of the scan the pass is inside a block exactly when it
\* has processed an odd number of separator lines, and its state changes
\* exactly at the lines whose comment holds 70 times the letter c
C8_ToggleParity ==
  /\ [](pc \in {"doxy", "doxyDone"} => (inBlock <=> SeparatorsProcessed % 2 = 1))
  /\ [][TransformDoxygenBlocks =>
          LET i == IF pc = "doxy" THEN idx ELSE 1
              before == IF pc = "doxy" THEN inBlock ELSE FALSE
          IN  (inBlock' # before) <=>
                Cardinality({k \in 1..Len(codeLines[i].comment) :
                               codeLines[i].comment[k] = "c"}) = 70]_vars

\* C8: the scan has opened a block, rewritten a line in it and closed it
C8_Witness ==
  /\ pc = "doxyDone"
  /\ Len(codeLines) = 3
  /\ SeparatorsProcessed = 2
  /\ ~inBlock
  /\ codeLines[2].comment = <<"!", ">", " ", "@", "f", "i", "l", "e", " ", "f", ".", "f">>

----------------------------------------------------------------------------
(* Claims about the length-change swallowing *)

\* C7: origCodeLength is the length of the code at parse time; for a line with
\* code and comment whose code is now d # 0 characters longer, the space in
\* front of the comment becomes max(1, len(midSpace) - d) blanks, at least
\* one, and nothing else changes; a line without code, without comment or
\* with d = 0 is not changed at all
C7_LengthChangeSwallowing ==
  /\ [](pc = "parsed" =>
          \A i \in 1..Len(codeLines) :
            codeLines[i].origCodeLength = Len(codeLines[i].code))
  /\ [][SwallowLengthChange =>
          LET l == codeLines[idx]
              n == codeLines'[idx]
              d == Len(l.code) - l.origCodeLength
              left == IF Len(l.midSpace) - d > 1 THEN Len(l.midSpace) - d ELSE 1
          IN  /\ IF Len(l.code) > 0 /\ Len(l.comment) > 0 /\ d # 0
                 THEN /\ Len(n.midSpace) = left
                      /\ Len(n.midSpace) >= 1
                      /\ \A k \in 1..Len(n.midSpace) : n.midSpace[k] = " "
                      /\ [n EXCEPT !.midSpace = l.midSpace] = l
                 ELSE n = l
              /\ \A j \in 1..Len(codeLines) : j # idx => codeLines'[j] = codeLines[j]]_vars

\* C7: the code grew by three characters in front of two blanks and a comment,
\* and one blank is left
C7_Witness ==
  /\ pc = "swallowed"
  /\ \E i \in 1..Len(codeLines) :
       /\ Len(codeLines[i].code) = codeLines[i].origCodeLength + 3
       /\ codeLines[i].midSpace = <<" ">>
       /\ Len(codeLines[i].comment) > 0

----------------------------------------------------------------------------
(* Claims about the continuation markers of a converted fixed-layout file *)

\* C11: once every line of a fixed-layout file was parsed, the continuations
\* were identified and every line was converted, a line carries the trailing
\* continuation marker "&" exactly when it has code and some later line
\* carries the leading continuation marker "&" with no line with code
\* strictly between the two; and the fixed label and the fixed continuation
\* marker of every line are empty
C11_ContinuationMarkerPairing ==
  pc = "converted" =>
    \A i \in 1..Len(codeLines) :
      /\ codeLines[i].freeContEnd = <<"&">> <=>
            /\ hasCode(codeLines[i])
            /\ \E j \in (i + 1)..Len(codeLines) :
                 NoCodeBetween(i, j) /\ codeLines[j].freeContBeg = <<"&">>
      /\ codeLines[i].fixedLabel = <<>>
      /\ codeLines[i].fixedCont = <<>>

\* C11: a labelled statement was converted and is continued by a marker line
\* without code, which a statement that is no continuation follows
C11_Witness ==
  /\ pc = "converted"
  /\ Len(codeLines) = 3
  /\ codeLines[1].freeLabel = <<"1", " ">>
  /\ codeLines[1].freeContEnd = <<"&">>
  /\ codeLines[2].freeContBeg = <<"&">> /\ ~hasCode(codeLines[2])
  /\ codeLines[2].freeContEnd = <<>>
  /\ hasCode(codeLines[3]) /\ codeLines[3].freeContBeg = <<>>

====
